---- MODULE Spec2Model ----
(***************************************************************************)
(* The network-server example (examples/network-server/cmd/app/main.go):   *)
(* one handler goroutine per accepted connection (Server.handleConnection),*)
(* the broadcaster goroutine (Server.broadcastMessages), and the shutdown  *)
(* code at the end of Server.startServer.  The handlers talk to the        *)
(* broadcaster over two unbuffered channels (newClients, doneClients) and  *)
(* one buffered channel (messages); the map Server.clients is shared.      *)
(*                                                                         *)
(* Text is modelled as a sequence of one-character strings, so that        *)
(* strings.TrimSpace and strings.ToLower are computed, not assumed.        *)
(*                                                                         *)
(* The GPIO LED example (its main.go as listed in                          *)
(* examples/network-server/README.md) is a program of its own: the last    *)
(* part of the module, with its own variables and specification GpioSpec.  *)
(***************************************************************************)
EXTENDS Integers, Sequences, FiniteSets, TLC

\* Bounds of the model: the connections the listener accepts, and the inputs
\* the environment makes in all (a connection with its name line, a further
\* line, a client going away, the termination signal).
NumConns == 2
MaxInputs == 4

\* Bound of the GPIO LED model: the timer ticks in one run.
MaxBlinks == 60

\* make(chan string, 100)
MessagesCap == 100

Conns == 1..NumConns
\* excludeConn = nil
NoConn == 0

VARIABLES
    pc,         \* pc[c]: where the handler goroutine of connection c stands
    clientName, \* clientName[c]: the handler's local variable clientName
    inputs,     \* the number of inputs the environment has made so far
    clients,    \* Server.clients: a function from the registered connections to names
    messages,   \* Server.messages: the buffered channel's content, oldest first; each
                \* entry is the text sent and, as history, the handlers that were
                \* already blocked in a send on newClients or doneClients then
    coordPc,    \* the broadcaster: "select", or "join" between lines 105 and 106
    coordConn,  \* the broadcaster's local variable conn in the newClients case
    srv,        \* startServer: "running", "draining" (lines 170-176), "stopped", "crashed"
    drainSnap,  \* the keys of Server.clients when the shutdown loop started
    visited,    \* the connections the shutdown loop has been through
    closed,     \* closed[c]: conn.Close() has been called on c
    peerGone,   \* peerGone[c]: the client end of c is gone (EOF or reset)
    out,        \* out[c]: the conn.Write calls made on c by the broadcaster and by the
                \* shutdown loop, in order
    own,        \* own[c]: the conn.Write calls the handler of c made on c while
                \* handling its latest input
    joinsDone,  \* history: joinsDone[c] = number of newClients events of c handled
    leavesDone, \* history: leavesDone[c] = number of doneClients events of c handled
    exitBy,     \* history: how the handler of c returned
    regWriter   \* history: the task that made the latest write to Server.clients

vars == <<pc, clientName, inputs, clients, messages, coordPc, coordConn,
          srv, drainSnap, visited, closed, peerGone, out, own, joinsDone,
          leavesDone, exitBy, regWriter>>

\* The GPIO LED example.
VARIABLES
    pins,       \* SimulatedGPIO.pins: a function from pin numbers to states
    blinkCount, \* main's local variable blinkCount
    ledPc,      \* main: "init" before gpio.Output, "blinking" in the loop, "exited"
    report      \* the latest "LED <state> (blink #<n>)" line printed, if any

gpioVars == <<pins, blinkCount, ledPc, report>>

-----------------------------------------------------------------------------
\* Text.

IsSpace(ch) == ch \in {" ", "\t"}

RECURSIVE TrimLeft(_)
TrimLeft(s) ==
    IF s = <<>> THEN s
    ELSE IF IsSpace(Head(s)) THEN TrimLeft(Tail(s)) ELSE s

RECURSIVE TrimRight(_)
TrimRight(s) ==
    IF s = <<>> THEN s
    ELSE IF IsSpace(s[Len(s)]) THEN TrimRight(SubSeq(s, 1, Len(s) - 1)) ELSE s

\* strings.TrimSpace
TrimSpace(s) == TrimRight(TrimLeft(s))

Uppers == <<"C", "E", "H", "I", "L", "M", "N", "P", "Q", "S", "T", "U", "Y">>
Lowers == <<"c", "e", "h", "i", "l", "m", "n", "p", "q", "s", "t", "u", "y">>

ToLowerCh(ch) ==
    IF \E i \in 1..Len(Uppers) : Uppers[i] = ch
    THEN Lowers[CHOOSE i \in 1..Len(Uppers) : Uppers[i] = ch]
    ELSE ch

\* A comparison that takes the letters as they are.
ToLowerIdentity(s) == s

\* strings.ToLower
ToLower(s) == [i \in 1..Len(s) |-> ToLowerCh(s[i])]

CmdHelp    == <<"h", "e", "l", "p">>
CmdTime    == <<"t", "i", "m", "e">>
CmdClients == <<"c", "l", "i", "e", "n", "t", "s">>
CmdQuit    == <<"q", "u", "i", "t">>

\* conn.RemoteAddr().String(): one address per connection, no two alike.
Digits == <<"0", "1", "2", "3", "4", "5", "6", "7", "8", "9">>
RemoteAddr(c) == <<"@", Digits[c + 1]>>

\* fmt.Sprintf("%d", n), for the counts that occur
Itoa(n) == <<Digits[n + 1]>>

\* The lines a client may send as its name.
NameLines == { <<>>, <<" ">>, <<"a">>, <<" ", "a", "\t">> }

\* The lines a client may send afterwards.
InputLines ==
    { <<>>, <<" ", "\t">>,
      <<"h", "i">>, <<" ", "h", "i", "\t">>,
      CmdHelp, <<"H", "E", "L", "P">>,
      CmdTime, <<"T", "i", "m", "e", " ">>,
      CmdClients, <<" ", "C", "L", "I", "E", "N", "T", "S">>,
      CmdQuit, <<"Q", "u", "i", "t", " ">> }

-----------------------------------------------------------------------------
\* What is written to a connection: one record per conn.Write.  about is the
\* connection the line is about (history, not part of the text); nl says
\* whether the text ends with a newline.

Line(kind, name, text, about, nl) ==
    [kind |-> kind, name |-> name, text |-> text, about |-> about, nl |-> nl]

-----------------------------------------------------------------------------
\* Server.clients as a function: lookup, insert, delete.

\* s.clients[conn]: the zero string when conn is no key
Lookup(reg, c) == IF c \in DOMAIN reg THEN reg[c] ELSE <<>>

\* Line 60 left out: the map stays as it is.
InsertNothing(reg, c, name) == reg

\* s.clients[conn] = name
Insert(reg, c, name) ==
    [d \in DOMAIN reg \cup {c} |-> IF d = c THEN name ELSE reg[d]]

\* delete(s.clients, conn)
Delete(reg, c) == [d \in DOMAIN reg \ {c} |-> reg[d]]

\* broadcastToAll with the test of line 123 dropped: excludeConn is written too.
BroadcastToAllNoExclude(reg, line, excludeConn) ==
    [d \in Conns |->
        IF d \in DOMAIN reg THEN Append(out[d], line) ELSE out[d]]

\* broadcastToAll with the test of line 123 inverted: only excludeConn is
\* written.
BroadcastToAllInverted(reg, line, excludeConn) ==
    [d \in Conns |->
        IF d \in DOMAIN reg /\ d = excludeConn
        THEN Append(out[d], line)
        ELSE out[d]]

\* broadcastToAll ranging over every accepted connection instead of the keys
\* of the map.
BroadcastToEveryConn(reg, line, excludeConn) ==
    [d \in Conns |->
        IF pc[d] # "idle" /\ d # excludeConn
        THEN Append(out[d], line)
        ELSE out[d]]

\* broadcastToAll returning at the first write that fails.
BroadcastToAllAbortOnError(reg, line, excludeConn) ==
    IF \E d \in DOMAIN reg : d # excludeConn /\ closed[d]
    THEN out
    ELSE [d \in Conns |->
            IF d \in DOMAIN reg /\ d # excludeConn
            THEN Append(out[d], line)
            ELSE out[d]]

\* broadcastToAll with one connection served out of turn: its line is put
\* before what it was written earlier.
BroadcastToAllOutOfTurn(reg, line, excludeConn) ==
    [d \in Conns |->
        IF d \in DOMAIN reg /\ d # excludeConn
        THEN IF d = 1 THEN <<line>> \o out[d] ELSE Append(out[d], line)
        ELSE out[d]]

\* Server.broadcastToAll: one conn.Write on every key of the map but
\* excludeConn.  The result is the new value of out.
BroadcastToAll(reg, line, excludeConn) ==
    [d \in Conns |->
        IF d \in DOMAIN reg /\ d # excludeConn
        THEN Append(out[d], line)
        ELSE out[d]]

\* The process is alive: goroutines run until startServer returns to main,
\* or until the runtime ends the process.
Alive == srv \in {"running", "draining"}

\* The handler's writes made on every connection instead of its own.
HandlerWritesToAll(c, lines) == [d \in Conns |-> lines]

\* A channel that takes a message however many it holds.
CanSendAlways(q) == TRUE

\* Line 93: the send on the buffered channel goes through when the buffer has
\* room, and waits otherwise.
CanSend(q) == Len(q) < MessagesCap

\* The handler of c makes these conn.Write calls on c, in this order.
HandlerWrites(c, lines) == [own EXCEPT ![c] = lines]

\* The GPIO LED example: NewSimulatedGPIO(), and main up to gpio.Output.
GpioInit ==
    /\ pins = [q \in {} |-> FALSE]
    /\ blinkCount = 0
    /\ ledPc = "init"
    /\ report = [state |-> "none", n |-> 0]

\* The server after NewServer(); the other program at its start.
Init ==
    /\ pc = [c \in Conns |-> "idle"]
    /\ clientName = [c \in Conns |-> <<>>]
    /\ inputs = 0
    /\ clients = [c \in {} |-> <<>>]
    /\ messages = <<>>
    /\ coordPc = "select"
    /\ coordConn = NoConn
    /\ srv = "running"
    /\ drainSnap = {}
    /\ visited = {}
    /\ closed = [c \in Conns |-> FALSE]
    /\ peerGone = [c \in Conns |-> FALSE]
    /\ out = [c \in Conns |-> <<>>]
    /\ own = [c \in Conns |-> <<>>]
    /\ joinsDone = [c \in Conns |-> 0]
    /\ leavesDone = [c \in Conns |-> 0]
    /\ exitBy = [c \in Conns |-> "none"]
    /\ regWriter = "none"
    /\ GpioInit

-----------------------------------------------------------------------------
\* Server.handleConnection

\* Lines 53-56.
ChosenName(c, raw) ==
    IF TrimSpace(raw) = <<>> THEN RemoteAddr(c) ELSE TrimSpace(raw)

\* A handler that takes a stream ended before the name line for an empty name
\* and goes on to register.
AcceptNoNameJoins(c) ==
    /\ Alive
    /\ pc[c] = "idle"
    /\ inputs < MaxInputs
    /\ inputs' = inputs + 1
    /\ own' = HandlerWrites(c, << Line("banner", <<>>, <<>>, c, TRUE),
                                  Line("prompt", <<>>, <<>>, c, FALSE) >>)
    /\ peerGone' = [peerGone EXCEPT ![c] = TRUE]
    /\ clientName' = [clientName EXCEPT ![c] = RemoteAddr(c)]
    /\ pc' = [pc EXCEPT ![c] = "sendJoin"]
    /\ exitBy' = [exitBy EXCEPT ![c] = "noname"]
    /\ UNCHANGED <<clients, messages, coordPc, coordConn, closed,
                   srv, drainSnap, visited, out, joinsDone, leavesDone,
                   regWriter>>
    /\ UNCHANGED gpioVars

\* listener.Accept, go s.handleConnection(conn), and the handler's lines
\* 41-52 when the stream ends before a name line: the welcome banner, the name
\* prompt (which ends without newline), return, and the deferred conn.Close().
AcceptNoName(c) ==
    /\ Alive
    /\ pc[c] = "idle"
    /\ inputs < MaxInputs
    /\ inputs' = inputs + 1
    /\ own' = HandlerWrites(c, << Line("banner", <<>>, <<>>, c, TRUE),
                                  Line("prompt", <<>>, <<>>, c, FALSE) >>)
    /\ peerGone' = [peerGone EXCEPT ![c] = TRUE]
    /\ closed' = [closed EXCEPT ![c] = TRUE]
    /\ pc' = [pc EXCEPT ![c] = "done"]
    /\ exitBy' = [exitBy EXCEPT ![c] = "noname"]
    /\ UNCHANGED <<clientName, clients, messages, coordPc, coordConn,
                   srv, drainSnap, visited, out, joinsDone, leavesDone,
                   regWriter>>
    /\ UNCHANGED gpioVars

\* listener.Accept, go s.handleConnection(conn), and the handler's lines
\* 41-59 up to the send on newClients, where the handler blocks.
Accept(c) ==
    /\ Alive
    /\ pc[c] = "idle"
    /\ inputs < MaxInputs
    /\ inputs' = inputs + 1
    /\ own' = HandlerWrites(c, << Line("banner", <<>>, <<>>, c, TRUE),
                                  Line("prompt", <<>>, <<>>, c, FALSE) >>)
    /\ \E raw \in NameLines :
          clientName' = [clientName EXCEPT ![c] = ChosenName(c, raw)]
    /\ pc' = [pc EXCEPT ![c] = "sendJoin"]
    /\ UNCHANGED <<clients, messages, coordPc, coordConn, srv,
                   drainSnap, visited, closed, peerGone, out, joinsDone,
                   leavesDone, exitBy, regWriter>>
    /\ UNCHANGED gpioVars

\* Line 60, s.clients[conn] = clientName, made by the handler once its send
\* on newClients has been taken.
Register(c) ==
    /\ Alive
    /\ pc[c] = "register"
    /\ clients' = Insert(clients, c, clientName[c])
    /\ regWriter' = "handler"
    /\ pc' = [pc EXCEPT ![c] = "loop"]
    /\ UNCHANGED <<clientName, inputs, messages, coordPc, coordConn,
                   srv, drainSnap, visited, closed, peerGone, out, own,
                   joinsDone, leavesDone, exitBy>>
    /\ UNCHANGED gpioVars

\* Line 65, scanner.Scan() fails: the client went away, or the connection was
\* closed under the handler by the shutdown loop.  The handler leaves the loop
\* for the send on doneClients (line 98).
ReadFails(c) ==
    /\ Alive
    /\ pc[c] = "loop"
    /\ closed[c] \/ inputs < MaxInputs
    /\ inputs' = IF closed[c] THEN inputs ELSE inputs + 1
    /\ peerGone' = [peerGone EXCEPT ![c] = IF closed[c] THEN @ ELSE TRUE]
    /\ pc' = [pc EXCEPT ![c] = "sendLeave"]
    /\ own' = HandlerWrites(c, <<>>)
    /\ UNCHANGED <<clientName, clients, messages, coordPc,
                   coordConn, srv, drainSnap, visited, closed, out, joinsDone,
                   leavesDone, exitBy, regWriter>>
    /\ UNCHANGED gpioVars

\* The six writes of the help command, lines 74-79.
HelpLines(c) ==
    << Line("help", <<>>, <<>>, c, TRUE), Line("help", <<>>, <<>>, c, TRUE),
       Line("help", <<>>, <<>>, c, TRUE), Line("help", <<>>, <<>>, c, TRUE),
       Line("help", <<>>, <<>>, c, TRUE), Line("help", <<>>, <<>>, c, TRUE) >>

\* What the switch of lines 72-94 does with the trimmed, non-empty line m.
Command(m) ==
    IF ToLower(m) = CmdHelp THEN "help"
    ELSE IF ToLower(m) = CmdTime THEN "time"
    ELSE IF ToLower(m) = CmdClients THEN "clients"
    ELSE IF ToLower(m) = CmdQuit THEN "quit"
    ELSE "default"

\* Lines 65-94: the line raw is read and handled, up to the next blocking
\* point.
ReadLineOf(c, raw) ==
    /\ Alive
    /\ pc[c] = "loop"
    /\ ~closed[c]
    /\ inputs < MaxInputs
    /\ inputs' = inputs + 1
    /\ LET m == TrimSpace(raw) IN
        IF m = <<>>
        THEN /\ own' = HandlerWrites(c, <<>>)
             /\ UNCHANGED <<pc, closed, exitBy, messages>>
        ELSE
          \/ /\ Command(m) = "help"
             /\ own' = HandlerWrites(c, HelpLines(c))
             /\ UNCHANGED <<pc, closed, exitBy, messages>>
          \/ /\ Command(m) = "time"
             /\ own' = HandlerWrites(c, <<Line("time", <<>>, <<>>, c, TRUE)>>)
             /\ UNCHANGED <<pc, closed, exitBy, messages>>
          \/ /\ Command(m) = "clients"
             \* line 83: len(s.clients)
             /\ own' = HandlerWrites(c,
                   <<Line("count", <<>>, Itoa(Cardinality(DOMAIN clients)), c, TRUE)>>)
             /\ pc' = [pc EXCEPT ![c] = "listClients"]
             /\ UNCHANGED <<closed, exitBy, messages>>
          \/ /\ Command(m) = "quit"
             \* lines 89-90, and the deferred conn.Close()
             /\ own' = HandlerWrites(c, <<Line("goodbye", <<>>, <<>>, c, TRUE)>>)
             /\ closed' = [closed EXCEPT ![c] = TRUE]
             /\ pc' = [pc EXCEPT ![c] = "done"]
             /\ exitBy' = [exitBy EXCEPT ![c] = "quit"]
             /\ UNCHANGED messages
          \/ /\ Command(m) = "default"
             \* line 93: the send on the buffered channel messages, which
             \* waits while the buffer is full; the text has no newline yet
             /\ CanSend(messages)
             /\ messages' = Append(messages,
                   [line |-> Line("chat", clientName[c], m, c, FALSE),
                    waiting |-> {d \in Conns : pc[d] \in {"sendJoin", "sendLeave"}}])
             /\ own' = HandlerWrites(c, <<>>)
             /\ UNCHANGED <<pc, closed, exitBy>>
    /\ UNCHANGED <<clientName, clients, coordPc, coordConn, srv,
                   drainSnap, visited, peerGone, out, joinsDone, leavesDone,
                   regWriter>>
    /\ UNCHANGED gpioVars

\* Line 65: scanner.Scan() returns some line of the client.
ReadLine(c) == \E raw \in InputLines : ReadLineOf(c, raw)

\* The orders in which a range over the map may produce its keys.
Orders(S) ==
    { o \in [1..Cardinality(S) -> S] :
        \A i, j \in 1..Cardinality(S) : i # j => o[i] # o[j] }

\* Lines 84-87: one write per name of the map, in the order the range
\* produces them, then the empty line.
ListClients(c) ==
    /\ Alive
    /\ pc[c] = "listClients"
    /\ \E o \in Orders(DOMAIN clients) :
          own' = HandlerWrites(c,
                     own[c]
                     \o [i \in 1..Len(o) |-> Line("item", clients[o[i]], <<>>, o[i], TRUE)]
                     \o <<Line("itemsEnd", <<>>, <<>>, c, TRUE)>>)
    /\ pc' = [pc EXCEPT ![c] = "loop"]
    /\ UNCHANGED <<clientName, inputs, clients, messages, coordPc,
                   coordConn, srv, drainSnap, visited, closed, peerGone, out,
                   joinsDone, leavesDone, exitBy, regWriter>>
    /\ UNCHANGED gpioVars

-----------------------------------------------------------------------------
\* Server.broadcastMessages: the select of lines 104-117.  A receive on an
\* unbuffered channel is a rendezvous with the handler blocked in the send;
\* when several cases are ready the select takes any of them.

\* A broadcaster that takes no Join while some handler waits in a read.
RecvJoinWhenNoReader(c) ==
    /\ Alive
    /\ coordPc = "select"
    /\ pc[c] = "sendJoin"
    /\ \A d \in Conns : pc[d] # "loop"
    /\ coordPc' = "join"
    /\ coordConn' = c
    /\ pc' = [pc EXCEPT ![c] = "register"]
    /\ UNCHANGED <<clientName, inputs, clients, messages, srv,
                   drainSnap, visited, closed, peerGone, out, own, joinsDone,
                   leavesDone, exitBy, regWriter>>
    /\ UNCHANGED gpioVars

\* Line 105: conn := <-s.newClients.  The handler goes on to line 60.
RecvJoin(c) ==
    /\ Alive
    /\ coordPc = "select"
    /\ pc[c] = "sendJoin"
    /\ coordPc' = "join"
    /\ coordConn' = c
    /\ pc' = [pc EXCEPT ![c] = "register"]
    /\ UNCHANGED <<clientName, inputs, clients, messages, srv,
                   drainSnap, visited, closed, peerGone, out, own, joinsDone,
                   leavesDone, exitBy, regWriter>>
    /\ UNCHANGED gpioVars

\* Line 106: the name the broadcaster finds in the map for conn.
JoinName(reg, c) == Lookup(reg, c)

\* Lines 106-108: the name is looked up in the map and announced to all keys
\* of the map but conn.
ProcessJoin ==
    /\ Alive
    /\ coordPc = "join"
    /\ out' = BroadcastToAll(clients,
                 Line("joined", JoinName(clients, coordConn), <<>>, coordConn, TRUE),
                 coordConn)
    /\ joinsDone' = [joinsDone EXCEPT ![coordConn] = @ + 1]
    /\ coordPc' = "select"
    /\ coordConn' = NoConn
    /\ UNCHANGED <<pc, clientName, inputs, clients, messages, srv,
                   drainSnap, visited, closed, peerGone, own, leavesDone,
                   exitBy, regWriter>>
    /\ UNCHANGED gpioVars

\* The doneClients case with the delete of line 111 left out.
AfterLeaveKeeps(reg, c) == reg

\* Lines 110-111: the map after the doneClients case.
AfterLeave(reg, c) == IF c \in DOMAIN reg THEN Delete(reg, c) ELSE reg

\* Lines 109-114: conn := <-s.doneClients, and the case's body.  The handler,
\* its send taken, goes through lines 99-100 and the deferred conn.Close().
ProcessLeave(c) ==
    /\ Alive
    /\ coordPc = "select"
    /\ pc[c] = "sendLeave"
    /\ pc' = [pc EXCEPT ![c] = "done"]
    /\ closed' = [closed EXCEPT ![c] = TRUE]
    /\ exitBy' = [exitBy EXCEPT ![c] = "eof"]
    /\ clients' = AfterLeave(clients, c)
    /\ IF c \in DOMAIN clients
       THEN /\ regWriter' = "coordinator"
            /\ out' = BroadcastToAll(AfterLeave(clients, c),
                         Line("left", clients[c], <<>>, c, TRUE), NoConn)
       ELSE UNCHANGED <<regWriter, out>>
    /\ leavesDone' = [leavesDone EXCEPT ![c] = @ + 1]
    /\ UNCHANGED <<clientName, inputs, messages, coordPc, coordConn, srv,
                   drainSnap, visited, peerGone, own, joinsDone>>
    /\ UNCHANGED gpioVars

\* The messages case with the sender left out of the broadcast.
ProcessMessageNotToSender ==
    /\ Alive
    /\ coordPc = "select"
    /\ messages # <<>>
    /\ out' = BroadcastToAll(clients, [Head(messages).line EXCEPT !.nl = TRUE],
                             Head(messages).line.about)
    /\ messages' = Tail(messages)
    /\ UNCHANGED <<pc, clientName, inputs, clients, coordPc, coordConn,
                   srv, drainSnap, visited, closed, peerGone, own, joinsDone,
                   leavesDone, exitBy, regWriter>>
    /\ UNCHANGED gpioVars

\* The messages case without the newline of line 116.
ProcessMessageNoNewline ==
    /\ Alive
    /\ coordPc = "select"
    /\ messages # <<>>
    /\ out' = BroadcastToAll(clients, Head(messages).line, NoConn)
    /\ messages' = Tail(messages)
    /\ UNCHANGED <<pc, clientName, inputs, clients, coordPc, coordConn,
                   srv, drainSnap, visited, closed, peerGone, own, joinsDone,
                   leavesDone, exitBy, regWriter>>
    /\ UNCHANGED gpioVars

\* The messages case run by a task of its own, whatever the broadcaster is at.
ProcessMessageAnytime ==
    /\ Alive
    /\ messages # <<>>
    /\ out' = BroadcastToAll(clients, [Head(messages).line EXCEPT !.nl = TRUE], NoConn)
    /\ messages' = Tail(messages)
    /\ UNCHANGED <<pc, clientName, inputs, clients, coordPc, coordConn,
                   srv, drainSnap, visited, closed, peerGone, own, joinsDone,
                   leavesDone, exitBy, regWriter>>
    /\ UNCHANGED gpioVars

\* The messages case taking the message queued last.
ProcessMessageNewestFirst ==
    /\ Alive
    /\ coordPc = "select"
    /\ messages # <<>>
    /\ out' = BroadcastToAll(clients,
                 [messages[Len(messages)].line EXCEPT !.nl = TRUE], NoConn)
    /\ messages' = SubSeq(messages, 1, Len(messages) - 1)
    /\ UNCHANGED <<pc, clientName, inputs, clients, coordPc, coordConn,
                   srv, drainSnap, visited, closed, peerGone, own, joinsDone,
                   leavesDone, exitBy, regWriter>>
    /\ UNCHANGED gpioVars

\* The messages case dropping the message when some handler waits to send a
\* Join or a Leave.
ProcessMessageDropsWhenBusy ==
    /\ Alive
    /\ coordPc = "select"
    /\ messages # <<>>
    /\ out' = IF \E c \in Conns : pc[c] \in {"sendJoin", "sendLeave"}
              THEN out
              ELSE BroadcastToAll(clients, [Head(messages).line EXCEPT !.nl = TRUE], NoConn)
    /\ messages' = Tail(messages)
    /\ UNCHANGED <<pc, clientName, inputs, clients, coordPc, coordConn,
                   srv, drainSnap, visited, closed, peerGone, own, joinsDone,
                   leavesDone, exitBy, regWriter>>
    /\ UNCHANGED gpioVars

\* Lines 115-116: message := <-s.messages, broadcast with a newline added.
ProcessMessage ==
    /\ Alive
    /\ coordPc = "select"
    /\ messages # <<>>
    /\ out' = BroadcastToAll(clients, [Head(messages).line EXCEPT !.nl = TRUE], NoConn)
    /\ messages' = Tail(messages)
    /\ UNCHANGED <<pc, clientName, inputs, clients, coordPc, coordConn,
                   srv, drainSnap, visited, closed, peerGone, own, joinsDone,
                   leavesDone, exitBy, regWriter>>
    /\ UNCHANGED gpioVars

-----------------------------------------------------------------------------
\* Server.startServer, lines 168-179.

\* Line 169: the signal arrives; the range of line 173 starts.
Signal ==
    /\ srv = "running"
    /\ inputs < MaxInputs
    /\ inputs' = inputs + 1
    /\ srv' = "draining"
    /\ drainSnap' = DOMAIN clients
    /\ UNCHANGED <<pc, clientName, clients, messages, coordPc,
                   coordConn, visited, closed, peerGone, out, own, joinsDone,
                   leavesDone, exitBy, regWriter>>
    /\ UNCHANGED gpioVars

\* A loop that may come to the same key again.
ShutdownVisitAgain(c) ==
    /\ srv = "draining"
    /\ c \in DOMAIN clients
    /\ out' = [out EXCEPT ![c] = Append(@, Line("shutdown", <<>>, <<>>, c, TRUE))]
    /\ closed' = [closed EXCEPT ![c] = TRUE]
    /\ visited' = visited \cup {c}
    /\ UNCHANGED <<pc, clientName, inputs, clients, messages, coordPc,
                   coordConn, srv, drainSnap, peerGone, own, joinsDone,
                   leavesDone, exitBy, regWriter>>
    /\ UNCHANGED gpioVars

\* Lines 173-176, one turn of the loop: the notice and conn.Close().
ShutdownVisit(c) ==
    /\ srv = "draining"
    /\ c \in DOMAIN clients \ visited
    /\ out' = [out EXCEPT ![c] = Append(@, Line("shutdown", <<>>, <<>>, c, TRUE))]
    /\ closed' = [closed EXCEPT ![c] = TRUE]
    /\ visited' = visited \cup {c}
    /\ UNCHANGED <<pc, clientName, inputs, clients, messages, coordPc,
                   coordConn, srv, drainSnap, peerGone, own, joinsDone,
                   leavesDone, exitBy, regWriter>>
    /\ UNCHANGED gpioVars

\* Lines 178-179: the range is over, startServer returns nil and main returns,
\* which ends every goroutine.  The range has produced every key that was in
\* the map when it started and still is; a key added meanwhile may have been
\* skipped.
ShutdownReturn ==
    /\ srv = "draining"
    /\ (drainSnap \cap DOMAIN clients) \subseteq visited
    /\ srv' = "stopped"
    /\ UNCHANGED <<pc, clientName, inputs, clients, messages, coordPc,
                   coordConn, drainSnap, visited, closed, peerGone, out, own,
                   joinsDone, leavesDone, exitBy, regWriter>>
    /\ UNCHANGED gpioVars

\* Two goroutines stand at accesses of the map Server.clients, one of them a
\* write, with nothing ordering them: Register (line 60) against the
\* broadcaster's lookup and ranges (lines 106, 122), the shutdown range (line
\* 173), a handler's range (line 84) or another Register; the broadcaster's
\* delete (line 111) against the shutdown range or a handler's range.
MapRace ==
    \/ \E c \in Conns :
          /\ pc[c] = "register"
          /\ \/ coordPc = "join"
             \/ messages # <<>>
             \/ srv = "draining"
             \/ \E d \in Conns \ {c} : pc[d] \in {"register", "listClients", "sendLeave"}
    \/ \E c \in Conns :
          /\ pc[c] = "sendLeave"
          /\ coordPc = "select"
          /\ \/ srv = "draining"
             \/ \E d \in Conns : pc[d] = "listClients"

\* The Go runtime may detect an unsynchronised concurrent use of a map and end
\* the process ("fatal error: concurrent map read and map write").
MapRaceFatal ==
    /\ Alive
    /\ MapRace
    /\ srv' = "crashed"
    /\ UNCHANGED <<pc, clientName, inputs, clients, messages, coordPc,
                   coordConn, drainSnap, visited, closed, peerGone, out, own,
                   joinsDone, leavesDone, exitBy, regWriter>>
    /\ UNCHANGED gpioVars

-----------------------------------------------------------------------------
\* The GPIO LED example: SimulatedGPIO and main.

LED_PIN == 17

\* gpio.Output(pin)
Output(p, pin) == [q \in DOMAIN p \cup {pin} |-> IF q = pin THEN FALSE ELSE p[q]]

\* A Toggle that drives the pin high whatever its state.
ToggleSetsHigh(p, pin) ==
    [q \in DOMAIN p \cup {pin} |-> IF q = pin THEN TRUE ELSE p[q]]

\* gpio.Toggle(pin)
Toggle(p, pin) ==
    IF pin \in DOMAIN p
    THEN [p EXCEPT ![pin] = ~p[pin]]
    ELSE [q \in DOMAIN p \cup {pin} |-> IF q = pin THEN TRUE ELSE p[q]]

\* A Low that leaves the pin as it is.
LowKeeps(p, pin) == p

\* gpio.Low(pin)
Low(p, pin) == [q \in DOMAIN p \cup {pin} |-> IF q = pin THEN FALSE ELSE p[q]]

\* gpio.Read(pin): the zero value when the pin is no key
Read(p, pin) == IF pin \in DOMAIN p THEN p[pin] ELSE FALSE

\* gpio.GetState(pin)
GetState(p, pin) == IF Read(p, pin) THEN "HIGH" ELSE "LOW"

\* Line 272: gpio.Output(LED_PIN); main goes on to its loop.
GpioOutput ==
    /\ ledPc = "init"
    /\ pins' = Output(pins, LED_PIN)
    /\ ledPc' = "blinking"
    /\ UNCHANGED <<blinkCount, report>>
    /\ UNCHANGED vars

\* Lines 287-294: a tick of the timer.
Tick ==
    /\ ledPc = "blinking"
    /\ blinkCount < MaxBlinks
    /\ pins' = Toggle(pins, LED_PIN)
    /\ blinkCount' = blinkCount + 1
    /\ report' = [state |-> GetState(pins', LED_PIN), n |-> blinkCount']
    /\ UNCHANGED ledPc
    /\ UNCHANGED vars

\* Lines 296-301: the signal; the LED is turned off and main returns.
OnSignal ==
    /\ ledPc = "blinking"
    /\ pins' = Low(pins, LED_PIN)
    /\ ledPc' = "exited"
    /\ UNCHANGED <<blinkCount, report>>
    /\ UNCHANGED vars

GpioNext == GpioOutput \/ Tick \/ OnSignal

GpioSpec == Init /\ [][GpioNext]_gpioVars

-----------------------------------------------------------------------------
Next ==
    \/ \E c \in Conns : AcceptNoName(c)
    \/ \E c \in Conns : Accept(c)
    \/ \E c \in Conns : Register(c)
    \/ \E c \in Conns : ReadFails(c)
    \/ \E c \in Conns : ReadLine(c)
    \/ \E c \in Conns : ListClients(c)
    \/ \E c \in Conns : RecvJoin(c)
    \/ ProcessJoin
    \/ \E c \in Conns : ProcessLeave(c)
    \/ ProcessMessage
    \/ Signal
    \/ \E c \in Conns : ShutdownVisit(c)
    \/ ShutdownReturn
    \/ MapRaceFatal

Spec == Init /\ [][Next]_vars

\* The goroutine of main keeps running once the signal has been received: the
\* loop of lines 173-176 and the return of line 179 are not held up for ever.
FairSpec ==
    /\ Spec
    /\ \A c \in Conns : WF_vars(ShutdownVisit(c))
    /\ WF_vars(ShutdownReturn)

\* The goroutine of the broadcaster keeps being scheduled, and its select,
\* which takes one of the ready cases at random, does not pass over for ever a
\* case that is ready again and again.
CoordFair ==
    /\ WF_vars(ProcessJoin)
    /\ SF_vars(ProcessMessage)
    /\ \A c \in Conns : SF_vars(RecvJoin(c)) /\ SF_vars(ProcessLeave(c))

\* The server with its broadcaster scheduled fairly.
CoordFairSpec == Spec /\ CoordFair

\* A state the server is in when its first client, named "a", has registered
\* and sent chat lines, as many as the channel holds, before the broadcaster
\* took any; inputs counts the inputs from this state on, of which the model
\* makes one.
QueueInit ==
    /\ pc = [c \in Conns |-> IF c = 1 THEN "loop" ELSE "idle"]
    /\ clientName = [c \in Conns |-> IF c = 1 THEN <<"a">> ELSE <<>>]
    /\ inputs = MaxInputs - 1
    /\ clients = [c \in {1} |-> <<"a">>]
    /\ messages = [i \in 1..MessagesCap |->
                      [line |-> Line("chat", <<"a">>, <<"h", "i">>, 1, FALSE),
                       waiting |-> {}]]
    /\ coordPc = "select"
    /\ coordConn = NoConn
    /\ srv = "running"
    /\ drainSnap = {}
    /\ visited = {}
    /\ closed = [c \in Conns |-> FALSE]
    /\ peerGone = [c \in Conns |-> FALSE]
    /\ out = [c \in Conns |-> <<>>]
    /\ own = [c \in Conns |-> <<>>]
    /\ joinsDone = [c \in Conns |-> IF c = 1 THEN 1 ELSE 0]
    /\ leavesDone = [c \in Conns |-> 0]
    /\ exitBy = [c \in Conns |-> "none"]
    /\ regWriter = "handler"
    /\ GpioInit

\* The server from that state on.
QueueSpec == QueueInit /\ [][Next]_vars

-----------------------------------------------------------------------------
\* Vocabulary of the properties.

\* The broadcaster takes the Join, or the Leave, of c in this step.
TakesJoin(c) == pc[c] = "sendJoin" /\ pc'[c] = "register"
TakesLeave(c) == pc[c] = "sendLeave" /\ pc'[c] = "done"

\* The broadcaster finishes the Join case for c in this step.
FinishesJoin(c) == coordPc = "join" /\ coordConn = c /\ coordPc' = "select"

\* The number of lines of this kind about connection c in a log.
Count(log, kind, c) ==
    Cardinality({i \in 1..Len(log) : log[i].kind = kind /\ log[i].about = c})

\* Connection c has a chat message waiting in the channel.
Pending(c) == \E i \in 1..Len(messages) : messages[i].line.about = c

\* Connection c has sent a chat message: it waits in the channel, or it was
\* broadcast while c was a key of the map.
EmittedChat(c) == Pending(c) \/ Count(out[c], "chat", c) > 0

\* C1: in every reachable state a connection is a key of the client registry
\* if and only if the broadcaster has processed its Join and has not since
\* processed a Leave for it.  (While the broadcaster is inside the Join case
\* for c, the Join counts as processed for the "only if" part.)
C1_RegistryIffJoined ==
    \A c \in Conns :
        /\ (joinsDone[c] > 0 /\ leavesDone[c] = 0) => c \in DOMAIN clients
        /\ c \in DOMAIN clients =>
              ((joinsDone[c] > 0 \/ coordConn = c) /\ leavesDone[c] = 0)

\* C2: every write of the client registry (insert or delete) is made by the
\* broadcaster task, never by a handler or by the shutdown code.
C2_OnlyCoordinatorWrites ==
    [][clients' # clients => regWriter' = "coordinator"]_vars

\* C3: once a registered client has sent quit, its handler has written the
\* farewell line, the connection is closed, exactly one Leave of it has been
\* processed, and the connection is no longer in the registry.
C3_QuitLeavesOnce ==
    \A c \in Conns :
        exitBy[c] = "quit" =>
            /\ own[c] = <<Line("goodbye", <<>>, <<>>, c, TRUE)>>
            /\ closed[c]
            /\ leavesDone[c] = 1
            /\ c \notin DOMAIN clients

\* C4: a handler whose client's stream ended without quit has emitted a Leave
\* before it terminates; when that Leave is processed every connection that
\* remains registered is written the "left the chat" announcement of that
\* client, and no connection is ever written it twice.
C4_DisconnectAnnouncedOnce ==
    [][\A c \in Conns :
          /\ exitBy'[c] = "eof" => leavesDone'[c] = 1
          /\ TakesLeave(c) =>
                \A d \in DOMAIN clients' :
                    /\ out'[d] = Append(out[d], Line("left", clientName[c], <<>>, c, TRUE))
                    /\ Count(out'[d], "left", c) = 1
          /\ \A d \in Conns : Count(out'[d], "left", c) <= 1]_vars

\* C4 witness: a client has gone away without quit, its handler has
\* terminated, and the other, still registered, has been written the
\* announcement.
C4_Witness ==
    \E c \in Conns : \E d \in Conns \ {c} :
        /\ exitBy[c] = "eof"
        /\ peerGone[c]
        /\ d \in DOMAIN clients
        /\ Count(out[d], "left", c) = 1

\* C5: the broadcaster processes events strictly in the order they were sent:
\* it never takes a Join or a Leave while a chat message is waiting that was
\* sent before the handler of that Join or Leave began its send.
C5_ArrivalOrder ==
    [][\A c \in Conns :
          (TakesJoin(c) \/ TakesLeave(c)) =>
              \A i \in 1..Len(messages) : c \in messages[i].waiting]_vars

\* C6: once the handler of a connection that sent a chat message and then quit
\* has returned, the connection's Leave has been processed and none of its
\* messages is still waiting to be delivered: they were all delivered before
\* the Leave.
C6_MessagesBeforeQuitLeave ==
    \A c \in Conns :
        (exitBy[c] = "quit" /\ EmittedChat(c)) =>
            (leavesDone[c] = 1 /\ ~Pending(c))

\* C7: the events of one handler are processed in the order it produced them:
\* when its Leave is taken its Join has been processed and none of its
\* messages is still waiting; and its messages leave the channel in the order
\* they entered it.
C7_PerHandlerOrder ==
    [][/\ \A c \in Conns :
             TakesLeave(c) => (joinsDone[c] = 1 /\ ~Pending(c))
       /\ \A c \in Conns :
             (messages # <<>> /\ messages' # messages /\ Len(messages') < Len(messages))
                 => messages' = Tail(messages)]_vars

\* C8: when the broadcaster processes the Join of c, the "joined" announcement
\* is written to every connection that is a key of the registry at that moment
\* other than c, to no other connection, and never to c itself.
C8_JoinAnnouncedToOthers ==
    [][\A c \in Conns :
          /\ FinishesJoin(c) =>
                \A d \in Conns :
                    IF d \in DOMAIN clients /\ d # c
                    THEN /\ Len(out'[d]) = Len(out[d]) + 1
                         /\ out'[d][Len(out'[d])].kind = "joined"
                         /\ out'[d][Len(out'[d])].about = c
                    ELSE out'[d] = out[d]
          /\ Count(out'[c], "joined", c) = 0]_vars

\* C8 witness: c was a key of the registry when its Join was processed (the
\* announcement carries the name found there), and another connection has been
\* written the announcement.
C8_Witness ==
    \E c \in Conns : \E d \in Conns \ {c} :
        /\ joinsDone[c] = 1
        /\ \E i \in 1..Len(out[d]) :
              /\ out[d][i].kind = "joined"
              /\ out[d][i].about = c
              /\ out[d][i].name # <<>>

\* C9: the "joined" announcement broadcast for a connection carries the
\* display name its handler chose.
C9_JoinCarriesChosenName ==
    [][\A c \in Conns :
          FinishesJoin(c) =>
              \A d \in Conns :
                  out'[d] # out[d] => out'[d][Len(out'[d])].name = clientName[c]]_vars

\* C10: a Leave for a connection that is in the registry removes it and writes
\* "<name> left", with its display name, to every connection that remains
\* registered and to no other, the leaving one included; a Leave for a
\* connection that is not in the registry changes neither the registry nor
\* what any connection has been written.
C10_LeaveRemovesAndAnnounces ==
    [][\A c \in Conns :
          TakesLeave(c) =>
              IF c \in DOMAIN clients
              THEN /\ clients' = [d \in DOMAIN clients \ {c} |-> clients[d]]
                   /\ clients[c] = clientName[c]
                   /\ \A d \in Conns :
                         out'[d] = IF d \in DOMAIN clients \ {c}
                                   THEN Append(out[d], Line("left", clientName[c], <<>>, c, TRUE))
                                   ELSE out[d]
              ELSE clients' = clients /\ out' = out]_vars

\* C10 witness: a Leave has been processed for a connection that was in the
\* registry together with another one, which has been written the
\* announcement while the leaving one has not.
C10_Witness ==
    \E c \in Conns : \E d \in Conns \ {c} :
        /\ leavesDone[c] = 1
        /\ c \notin DOMAIN clients
        /\ d \in DOMAIN clients
        /\ Count(out[d], "left", c) = 1
        /\ Count(out[c], "left", c) = 0

\* The broadcaster takes a chat message from the channel in this step.
TakesMessage == messages # <<>> /\ messages' = Tail(messages)

\* The last line of a log, and whether a step appends one line to out[d].
Last(log) == log[Len(log)]
Written(d) == Len(out'[d]) = Len(out[d]) + 1

\* C11: when the broadcaster processes a chat message, the line (the sender's
\* name and the text as sent, with the newline added) is written to every
\* connection that is a key of the registry at that moment, the sender's own
\* included, and to no other.
C11_MessageToAllRegistered ==
    [][TakesMessage =>
          \A d \in Conns :
              out'[d] = IF d \in DOMAIN clients
                        THEN Append(out[d],
                                    Line("chat", Head(messages).line.name,
                                         Head(messages).line.text,
                                         Head(messages).line.about, TRUE))
                        ELSE out[d]]_vars

\* C11 witness: two connections are registered, one has sent "hi" (trimmed),
\* and both the other and the sender have been written the line with the
\* sender's name.
C11_Witness ==
    \E c \in Conns : \E d \in Conns \ {c} :
        /\ {c, d} \subseteq DOMAIN clients
        /\ \E i \in 1..Len(out[d]) :
              out[d][i] = Line("chat", clientName[c], <<"h", "i">>, c, TRUE)
        /\ \E i \in 1..Len(out[c]) :
              out[c][i] = Line("chat", clientName[c], <<"h", "i">>, c, TRUE)

\* C12: a connection is written a broadcast (join, leave or chat) only by an
\* event processed while it is in the registry, after its own Join has been
\* processed and before its own Leave is.
C12_BroadcastOnlyWhileRegistered ==
    [][\A d \in Conns :
          (Written(d) /\ Last(out'[d]).kind \in {"joined", "left", "chat"}) =>
              /\ d \in DOMAIN clients
              /\ joinsDone[d] = 1
              /\ leavesDone'[d] = 0]_vars

\* C12 witness: a chat message was broadcast to its registered sender and not
\* to a connection that is registered by now, its Join processed later.
C12_Witness ==
    \E c \in Conns : \E d \in Conns \ {c} :
        /\ Count(out[c], "chat", c) = 1
        /\ Count(out[d], "chat", c) = 0
        /\ joinsDone[d] = 1
        /\ d \in DOMAIN clients
        /\ messages = <<>>

\* The handler of c has answered a clients command completely: the count line,
\* the names, the empty line.
Listed(c) ==
    /\ pc[c] = "loop"
    /\ Len(own[c]) >= 2
    /\ own[c][1].kind = "count"
    /\ Last(own[c]).kind = "itemsEnd"

\* The names of a complete answer, in the order written, and the connections
\* they belong to.
ListedNames(log) == [i \in 1..(Len(log) - 2) |-> log[i + 1].name]
ListedConns(log) == {log[i + 1].about : i \in 1..(Len(log) - 2)}

\* C13: the answer to the clients command is one snapshot of the registry:
\* the count reported equals the number of names listed.
C13_ClientsSnapshot ==
    \A c \in Conns :
        Listed(c) => own[c][1].text = Itoa(Len(own[c]) - 2)

\* The handler of c writes the count line, or the names, in this step.
CountsClients(c) == pc[c] = "loop" /\ pc'[c] = "listClients"
ListsClients(c) == pc[c] = "listClients" /\ pc'[c] = "loop"

\* C14: the answer to the clients command counts and lists the requesting
\* connection itself; when the registry holds no other connection the count is
\* 1 and the only name listed is the requester's.
C14_ClientsIncludesSelf ==
    [][\A c \in Conns :
          /\ CountsClients(c) =>
                /\ c \in DOMAIN clients
                /\ own'[c][1].text # Itoa(0)
                /\ DOMAIN clients = {c} => own'[c][1].text = Itoa(1)
          /\ ListsClients(c) =>
                /\ \E i \in 1..Len(ListedNames(own'[c])) :
                      ListedNames(own'[c])[i] = clientName[c]
                /\ c \in ListedConns(own'[c])
                /\ DOMAIN clients = {c} =>
                      ListedNames(own'[c]) = <<clientName[c]>>]_vars

\* C14 witness: a connection alone in the registry has been answered count 1
\* and its own name only.
C14_Witness ==
    \E c \in Conns :
        /\ Listed(c)
        /\ DOMAIN clients = {c}
        /\ own[c][1].text = Itoa(1)
        /\ ListedNames(own[c]) = <<clientName[c]>>

\* C15: two clients queries with no registry change between them give the same
\* output.  When a handler lists the names while another connection holds a
\* complete answer that names exactly the present registry (no connection
\* enters the registry twice, so the registry has not changed since), the
\* names come out in the same order as in that answer.
C15_ClientsIdempotent ==
    [][\A c \in Conns : \A d \in Conns \ {c} :
          (ListsClients(c) /\ Listed(d) /\ ListedConns(own[d]) = DOMAIN clients
             /\ Len(own[d]) - 2 = Cardinality(DOMAIN clients)) =>
              ListedNames(own'[c]) = ListedNames(own[d])]_vars

\* C16: once the termination signal has been received no connection is added
\* to the registry.
C16_NoJoinWhileDraining ==
    [][srv = "draining" => DOMAIN clients' \subseteq DOMAIN clients]_vars

\* C17: when the server has returned after a termination signal, every
\* connection whose Join has been processed and whose Leave has not has been
\* written the shutdown notice exactly once and is closed.
C17_AllNotifiedAndClosed ==
    srv = "stopped" =>
        \A c \in Conns :
            (joinsDone[c] = 1 /\ leavesDone[c] = 0) =>
                (Count(out[c], "shutdown", c) = 1 /\ closed[c])

\* C18: once the termination signal has been received the broadcaster writes
\* no "left the chat" announcement to any connection.
C18_NoLeaveAnnouncedWhileDraining ==
    [][srv = "draining" =>
          \A d \in Conns : ~(Written(d) /\ Last(out'[d]).kind = "left")]_vars

\* C19: no registry insert by a handler and no registry delete by the
\* broadcaster happens while the shutdown pass iterates over the registry.
C19_NoRegistryWriteDuringPass ==
    [][srv = "draining" => clients' = clients]_vars

\* C20: the server leaves Running once, for Draining, on the termination
\* signal; the state never goes back; the notify-and-close pass goes over the
\* registry once, so no connection is written the shutdown notice twice, and
\* only while Draining.
C20_DrainOnce ==
    [][/\ srv' # srv =>
             \/ srv = "running" /\ srv' \in {"draining", "crashed"}
             \/ srv = "draining" /\ srv' \in {"stopped", "crashed"}
       /\ (srv = "running" /\ srv' = "draining") => inputs' = inputs + 1
       /\ visited \subseteq visited'
       /\ visited' # visited => (srv = "draining" /\ srv' = "draining")
       /\ \A c \in Conns : Count(out'[c], "shutdown", c) <= 1]_vars

\* C20 witness: the server has returned after a pass that notified a
\* connection.
C20_Witness ==
    /\ srv = "stopped"
    /\ \E c \in Conns : c \in visited /\ Count(out[c], "shutdown", c) = 1

\* C21: after the termination signal the server always reaches Stopped:
\* startServer returns, whatever the handlers are blocked in.
C21_DrainReachesStopped == (srv = "draining") ~> (srv = "stopped")

\* The broadcaster ends the handling of an event that is broadcast in this
\* step, and the connections the event is for: the keys of the registry, less
\* the joining one for a Join, less the leaving one for a Leave.
Recipients ==
    IF TakesMessage THEN DOMAIN clients
    ELSE IF \E c \in Conns : FinishesJoin(c) THEN DOMAIN clients \ {coordConn}
    ELSE UNION {DOMAIN clients \ {c} : c \in {e \in DOMAIN clients : TakesLeave(e)}}

\* C22: a broadcast some of whose writes fail (the connection is closed, or
\* its client is gone) is not stopped by the failure: every connection the
\* event is for is written the same line once, the failing ones included (no
\* retry), and the broadcaster is back at its select, the server running on.
C22_FailedWriteDoesNotStopBroadcast ==
    [][(\E e \in Recipients : closed[e] \/ peerGone[e]) =>
          /\ \A d \in Recipients : Written(d)
          /\ \A d, e \in Recipients : Last(out'[d]) = Last(out'[e])
          /\ \A d \in Conns \ Recipients : out'[d] = out[d]
          /\ coordPc' = "select"
          /\ srv' = srv]_vars

\* C22 witness: a connection closed by the shutdown loop was afterwards
\* written a chat line of another connection (the write fails), and that
\* other connection was written the line too.
C22_Witness ==
    \E c \in Conns : \E d \in Conns \ {c} :
        /\ \E i, j \in 1..Len(out[c]) :
              /\ i < j
              /\ out[c][i].kind = "shutdown"
              /\ out[c][j].kind = "chat"
              /\ out[c][j].about = d
        /\ Count(out[d], "chat", d) = 1

\* A line of spaces only; the line without the spaces at its ends; two words
\* equal but for the case of their letters.
IsBlank(raw) == \A i \in 1..Len(raw) : IsSpace(raw[i])

TrimOf(raw) ==
    CHOOSE t \in {SubSeq(raw, i, j) : i \in 1..(Len(raw) + 1), j \in 0..Len(raw)} :
        \E i \in 1..(Len(raw) + 1), j \in 0..Len(raw) :
            /\ t = SubSeq(raw, i, j)
            /\ \A k \in 1..(i - 1) : IsSpace(raw[k])
            /\ \A k \in (j + 1)..Len(raw) : IsSpace(raw[k])
            /\ IF i <= j THEN ~IsSpace(raw[i]) /\ ~IsSpace(raw[j]) ELSE j = i - 1

SameWord(t, w) ==
    /\ Len(t) = Len(w)
    /\ \A i \in 1..Len(w) :
          \/ t[i] = w[i]
          \/ \E k \in 1..Len(Lowers) : Lowers[k] = w[i] /\ Uppers[k] = t[i]

\* The line is help, time or clients in some letter case, or empty.
LocalCommand(raw) ==
    \/ IsBlank(raw)
    \/ \E w \in {CmdHelp, CmdTime, CmdClients} : SameWord(TrimOf(raw), w)

\* A step of the handler of c that emits no event, leaves the registry as it
\* is and writes to no connection but c.
HandlerOnly(c) ==
    /\ messages' = messages
    /\ clients' = clients
    /\ out' = out
    /\ \A d \in Conns \ {c} : own'[d] = own[d] /\ pc'[d] = pc[d]
    /\ pc'[c] \notin {"sendJoin", "sendLeave"}
    /\ coordPc' = coordPc

\* C23: handling help, time, clients or an empty line emits no event, leaves
\* the registry unchanged and writes to no connection other than the sender's;
\* an empty line writes nothing at all.
C23_LocalCommandsFrame ==
    [][\A c \in Conns :
          /\ \A raw \in InputLines :
                (ReadLineOf(c, raw) /\ LocalCommand(raw)) =>
                    /\ HandlerOnly(c)
                    /\ IsBlank(raw) => own'[c] = <<>>
          /\ ListsClients(c) => HandlerOnly(c)]_vars

\* C23 witness: a connection has been answered its help command while another
\* one is registered and still has only its banner and prompt.
C23_Witness ==
    \E c \in Conns : \E d \in Conns \ {c} :
        /\ own[c] = HelpLines(c)
        /\ d \in DOMAIN clients
        /\ Len(own[d]) = 2
        /\ own[d][2].kind = "prompt"

\* C24: a line that is help, time, clients or quit in any letter case, or
\* empty once trimmed, produces no Message event; every other line produces
\* exactly one, with the sender's display name and the trimmed text.
C24_LinesClassified ==
    [][\A c \in Conns : \A raw \in InputLines :
          ReadLineOf(c, raw) =>
              IF \/ IsBlank(raw)
                 \/ \E w \in {CmdHelp, CmdTime, CmdClients, CmdQuit} :
                       SameWord(TrimOf(raw), w)
              THEN messages' = messages
              ELSE /\ Len(messages') = Len(messages) + 1
                   /\ SubSeq(messages', 1, Len(messages)) = messages
                   /\ Last(messages').line.kind = "chat"
                   /\ Last(messages').line.name = clientName[c]
                   /\ Last(messages').line.text = TrimOf(raw)
                   /\ Last(messages').line.about = c]_vars

\* C24 witness: a chat message with the sender's name and the text "hi" waits
\* in the channel while another connection has been answered a command.
C24_Witness ==
    \E c \in Conns : \E d \in Conns \ {c} :
        /\ \E i \in 1..Len(messages) :
              /\ messages[i].line.about = c
              /\ messages[i].line.name = clientName[c]
              /\ messages[i].line.text = <<"h", "i">>
        /\ own[d] # <<>>
        /\ own[d][1].kind \in {"help", "time", "count"}

\* C25: the display name of a connection is its trimmed first line, or its
\* remote address when that line is empty; once set it never changes; and
\* every join, leave and chat line about the connection carries it.
C25_DisplayName ==
    [][\A c \in Conns :
          /\ (pc[c] = "idle" /\ pc'[c] = "sendJoin") =>
                \E raw \in NameLines :
                    clientName'[c] = IF IsBlank(raw) THEN RemoteAddr(c) ELSE TrimOf(raw)
          /\ pc[c] # "idle" => clientName'[c] = clientName[c]
          /\ (Written(c) /\ Last(out'[c]).kind \in {"joined", "left", "chat"}) =>
                Last(out'[c]).name = clientName[Last(out'[c]).about]]_vars

\* A step of the broadcaster, and an event of some handler waiting for it.
CoordStep ==
    \/ \E c \in Conns : RecvJoin(c)
    \/ ProcessJoin
    \/ \E c \in Conns : ProcessLeave(c)
    \/ ProcessMessage

EventPending ==
    \/ \E c \in Conns : pc[c] \in {"sendJoin", "sendLeave"}
    \/ messages # <<>>

\* C26: whenever an event of some handler is pending the broadcaster can take
\* its next step, however many handlers are blocked reading from their
\* clients.
C26_ReadersDoNotStallCoordinator ==
    (Alive /\ EventPending) => ENABLED CoordStep

\* C26 witness: a handler is blocked reading from its client, which is still
\* there, while another handler waits to hand over its Join.
C26_Witness ==
    \E c \in Conns : \E d \in Conns \ {c} :
        /\ Alive
        /\ pc[c] = "loop" /\ ~closed[c] /\ ~peerGone[c]
        /\ pc[d] = "sendJoin"
        /\ coordPc = "select"

\* C27: a chat message is written to exactly the connections in the registry
\* when the broadcaster processes it: every connection whose Join has been
\* processed by then and whose Leave has not is written it, and no connection
\* whose Leave has been processed is.
C27_DeliveredToRegistryAtProcessing ==
    [][TakesMessage =>
          \A d \in Conns :
              /\ Written(d) <=> d \in DOMAIN clients
              /\ (joinsDone[d] = 1 /\ leavesDone[d] = 0) => Written(d)
              /\ leavesDone[d] = 1 => ~Written(d)]_vars

\* Every line written to connection c so far.
LinesOf(c) ==
    {own[c][i] : i \in 1..Len(own[c])} \cup {out[c][i] : i \in 1..Len(out[c])}

\* C28: every text the server writes to a client ends with a newline, the
\* name prompt included.
C28_AllEndWithNewline ==
    \A c \in Conns : \A l \in LinesOf(c) : l.nl

\* C28, amended: every text the server writes to a client ends with a newline,
\* except the name prompt, which ends without one.
C28_AllButPromptEndWithNewline ==
    \A c \in Conns : \A l \in LinesOf(c) : l.nl <=> l.kind # "prompt"

\* C28 witness: a connection has just been written the banner and the prompt
\* while another has been written a chat line.
C28_Witness ==
    \E c \in Conns : \E d \in Conns \ {c} :
        /\ \E l \in LinesOf(c) : l.kind = "prompt" /\ ~l.nl
        /\ \E l \in LinesOf(c) : l.kind = "banner" /\ l.nl
        /\ \E l \in LinesOf(d) : l.kind = "chat" /\ l.nl

\* The places of line x in a log.
Places(log, x) == {i \in 1..Len(log) : log[i] = x}

\* Two different broadcast lines that both logs hold once each.
SharedOnce(a, b, x, y) ==
    /\ x # y
    /\ x.kind \in {"joined", "left", "chat"}
    /\ y.kind \in {"joined", "left", "chat"}
    /\ \A l \in {x, y} :
          Cardinality(Places(out[a], l)) = 1 /\ Cardinality(Places(out[b], l)) = 1

\* C29: two broadcasts that are both written to connection a and both written
\* to connection b are written to a and to b in the same order.
C29_SameBroadcastOrder ==
    \A a \in Conns : \A b \in Conns \ {a} :
        \A i, j \in 1..Len(out[a]) :
            (i < j /\ SharedOnce(a, b, out[a][i], out[a][j])) =>
                \A k \in Places(out[b], out[a][i]) :
                    \A m \in Places(out[b], out[a][j]) : k < m

\* C29 witness: two connections have both been written the same two
\* broadcasts.
C29_Witness ==
    \E a \in Conns : \E b \in Conns \ {a} :
        \E i, j \in 1..Len(out[a]) :
            i < j /\ SharedOnce(a, b, out[a][i], out[a][j])

\* C30: a connection that has been written both the "joined" announcement of
\* connection c and a chat message of c was written the announcement first.
C30_JoinBeforeChat ==
    \A c \in Conns : \A d \in Conns \ {c} :
        \A i, j \in 1..Len(out[d]) :
            (/\ out[d][i].kind = "joined" /\ out[d][i].about = c
             /\ out[d][j].kind = "chat" /\ out[d][j].about = c) => i < j

\* C30 witness: a connection has been written the announcement of another and
\* then a chat message of it.
C30_Witness ==
    \E c \in Conns : \E d \in Conns \ {c} :
        /\ Count(out[d], "joined", c) = 1
        /\ Count(out[d], "chat", c) >= 1

\* C31: chat messages are broadcast in the order they were put on the queue:
\* the queue changes only by a handler putting a message at its end or by the
\* broadcaster taking its first one, and the line the broadcaster writes is
\* that first one.
C31_MessagesFifo ==
    [][messages' # messages =>
          \/ /\ Len(messages') = Len(messages) + 1
             /\ SubSeq(messages', 1, Len(messages)) = messages
             /\ out' = out
          \/ /\ messages # <<>>
             /\ messages' = Tail(messages)
             /\ \A d \in DOMAIN clients :
                   /\ Written(d)
                   /\ Last(out'[d]).name = Head(messages).line.name
                   /\ Last(out'[d]).text = Head(messages).line.text
                   /\ Last(out'[d]).about = Head(messages).line.about]_vars

\* C31 witness: a connection has been written the message of one client while
\* the message of another, queued behind it, still waits.
C31_Witness ==
    \E c \in Conns : \E e \in Conns \ {c} : \E d \in Conns :
        /\ Count(out[d], "chat", c) = 1
        /\ Count(out[d], "chat", e) = 0
        /\ Len(messages) = 1
        /\ messages[1].line.about = e
        /\ d \in DOMAIN clients

\* C32: while the server runs and the broadcaster is scheduled, the messages
\* on the queue are eventually broadcast (the clients of the model send
\* finitely many lines, so the queue is eventually empty); a message leaves
\* the queue only by being broadcast, once, to every registered connection.
C32_MessagesEventuallyBroadcastOnce ==
    /\ (messages # <<>>) ~> (messages = <<>> \/ ~Alive)
    /\ [][\A i \in 1..Len(messages) :
             \/ i <= Len(messages') /\ messages'[i] = messages[i]
             \/ /\ messages' = Tail(messages)
                /\ \A d \in DOMAIN clients :
                      out'[d] = Append(out[d], [Head(messages).line EXCEPT !.nl = TRUE])]_vars

\* C32 witness: the queue has been emptied and the registered connection has
\* been written messages.
C32_Witness ==
    /\ Alive
    /\ messages = <<>>
    /\ \E d \in DOMAIN clients : \E c \in Conns : Count(out[d], "chat", c) >= 1

\* The handler of c is about to send a chat line it has read.
ReadyToSend(c) ==
    Alive /\ pc[c] = "loop" /\ ~closed[c] /\ inputs < MaxInputs

\* C33: the channel never holds more than its 100 messages; with 100 waiting
\* no handler's send goes through, and with fewer it does.
C33_QueueBounded ==
    /\ Len(messages) <= MessagesCap
    /\ MessagesCap = 100
    /\ \A c \in Conns :
          ReadyToSend(c) =>
              (ENABLED ReadLineOf(c, <<"h", "i">>) <=> Len(messages) < MessagesCap)

\* C33 witness: the channel, full at first, is full again after the
\* broadcaster has taken messages from it: a handler that could not send at
\* first has sent since, and its message is on the queue.
C33_Witness ==
    /\ Len(messages) = MessagesCap
    /\ inputs = MaxInputs
    /\ \E d \in Conns : Len(out[d]) >= 1
    /\ messages[Len(messages)].line.about = 1

C35_NoNameNoTrace ==
    \A c \in Conns :
        exitBy[c] = "noname" =>
            /\ closed[c]
            /\ pc[c] = "done"
            /\ c \notin DOMAIN clients
            /\ joinsDone[c] = 0 /\ leavesDone[c] = 0
            /\ coordConn # c
            /\ out[c] = <<>>
            /\ \A d \in Conns : \A i \in 1..Len(out[d]) : out[d][i].about # c

\* C35 witness: a connection went away before its name line while another is
\* registered and has been written nothing.
C35_Witness ==
    \E c \in Conns : \E d \in Conns \ {c} :
        /\ exitBy[c] = "noname"
        /\ d \in DOMAIN clients
        /\ joinsDone[d] = 1
        /\ out[d] = <<>>

C37_LedOffAtExit ==
    [][/\ ledPc' = "exited" => GetState(pins', LED_PIN) = "LOW"
       /\ ledPc = "exited" =>
             (pins' = pins /\ blinkCount' = blinkCount /\ ledPc' = "exited")]_gpioVars

\* C37 witness: the program has exited after an odd number of toggles, the
\* LED HIGH at the last report and LOW now.
C37_Witness ==
    /\ ledPc = "exited"
    /\ blinkCount % 2 = 1
    /\ report.state = "HIGH"
    /\ GetState(pins, LED_PIN) = "LOW"

====
